---------------------------- MODULE Spec2Model ----------------------------
(***************************************************************************)
(* Model of the FRED ETL pipeline (src/src/etl_pipeline.py).               *)
(*                                                                         *)
(* Two specifications share the variables below:                           *)
(*   Spec          main(): construction, run_full_pipeline over the        *)
(*                 catalog, the two exports and the exit status, with the  *)
(*                 three tables of the relational store;                   *)
(*   SpecTransform transform_data applied to observation sequences drawn   *)
(*                 from a bounded set.                                     *)
(*                                                                         *)
(* Numbers.  The code computes in IEEE doubles.  The model computes        *)
(* exactly: a cell of a data frame is a record [kind, num, den] where      *)
(*   kind = "num"   the rational num/den (den > 0, lowest terms),          *)
(*   kind = "root"  the real sign(num) * sqrt(|num|/den)  (the z-score,    *)
(*                  a quotient by a standard deviation),                   *)
(*   kind = "nan"   NaN, the missing marker of pandas,                     *)
(*   kind = "inf" / "ninf"   +infinity / -infinity.                        *)
(* Rounding of doubles is outside the model.                               *)
(***************************************************************************)
EXTENDS Integers, Sequences, FiniteSets, TLC

VARIABLES
    pc,                 \* position of main() / run_full_pipeline / process_series
    env,                \* environment: which configuration variables are set
    run,                \* number of the current process run (the store outlives a run)
    idx,                \* position of the for loop in the catalog
    success_count,      \* run_full_pipeline local
    fail_count,         \* run_full_pipeline local
    df,                 \* process_series local: the extracted frame
    df_transformed,     \* process_series local: the transformed frame
    series_metadata,    \* table series_metadata: set of rows
    observations,       \* table observations: set of rows
    calculated_metrics, \* table calculated_metrics: set of rows
    exit_status,        \* process exit status, -1 while running
    log,                \* history of the current run (what was attempted, what happened)
    written             \* history of the store: per table and key, the row last upserted

vars == << pc, env, run, idx, success_count, fail_count, df, df_transformed,
           series_metadata, observations, calculated_metrics, exit_status, log,
           written >>

----------------------------------------------------------------------------
(* Bounds of the model *)

\* series handled by the pipeline specification: the first NumSeries of the catalog
NumSeries == 2
\* process runs against the same store
MaxRuns == 2
\* longest observation sequence given to transform_data in SpecTransform
MaxLen == 13
\* observation values in SpecTransform: -1..MaxVal
MaxVal == 1
\* freely chosen leading values of a sequence in SpecTransform
HeadLen == 2

----------------------------------------------------------------------------
(* Exact arithmetic on cells *)

Abs(x) == IF x < 0 THEN 0 - x ELSE x

Sign(x) == IF x < 0 THEN 0 - 1 ELSE IF x > 0 THEN 1 ELSE 0

RECURSIVE GCD(_, _)
GCD(a, b) == IF b = 0 THEN a ELSE GCD(b, a % b)

\* the rational n/d, d # 0, in lowest terms with a positive denominator
Rat(n, d) ==
    LET g == GCD(Abs(n), Abs(d))
        s == IF d < 0 THEN 0 - 1 ELSE 1
    IN  [kind |-> "num", num |-> (s * n) \div g, den |-> (s * d) \div g]

Num(n) == Rat(n, 1)

NaN == [kind |-> "nan", num |-> 0, den |-> 1]

PosInf == [kind |-> "inf", num |-> 0, den |-> 1]

NegInf == [kind |-> "ninf", num |-> 0, den |-> 1]

IsNum(c) == c.kind = "num"

IsInf(c) == c.kind \in {"inf", "ninf"}

\* IEEE a + b
FAdd(a, b) ==
    IF a.kind = "nan" \/ b.kind = "nan" THEN NaN
    ELSE IF IsInf(a) /\ IsInf(b) THEN (IF a.kind = b.kind THEN a ELSE NaN)
    ELSE IF IsInf(a) THEN a
    ELSE IF IsInf(b) THEN b
    ELSE Rat(a.num * b.den + b.num * a.den, a.den * b.den)

\* IEEE -a
FNeg(a) ==
    IF a.kind = "nan" THEN NaN
    ELSE IF a.kind = "inf" THEN NegInf
    ELSE IF a.kind = "ninf" THEN PosInf
    ELSE Rat(0 - a.num, a.den)

\* IEEE a - b
FSub(a, b) == FAdd(a, FNeg(b))

\* sign of a cell that is not NaN
CellSign(a) ==
    IF a.kind = "inf" THEN 1 ELSE IF a.kind = "ninf" THEN 0 - 1 ELSE Sign(a.num)

\* IEEE a * b
FMul(a, b) ==
    IF a.kind = "nan" \/ b.kind = "nan" THEN NaN
    ELSE IF IsInf(a) \/ IsInf(b)
         THEN (IF CellSign(a) * CellSign(b) > 0 THEN PosInf
               ELSE IF CellSign(a) * CellSign(b) < 0 THEN NegInf
               ELSE NaN)
    ELSE Rat(a.num * b.num, a.den * b.den)

\* IEEE a / b: a finite quotient, or +-infinity for x/0, or NaN for 0/0
FDiv(a, b) ==
    IF a.kind = "nan" \/ b.kind = "nan" THEN NaN
    ELSE IF IsInf(a) /\ IsInf(b) THEN NaN
    ELSE IF IsInf(a)
         THEN (IF CellSign(a) * (IF b.num < 0 THEN 0 - 1 ELSE 1) > 0
               THEN PosInf ELSE NegInf)
    ELSE IF IsInf(b) THEN Num(0)
    ELSE IF b.num = 0
         THEN (IF a.num > 0 THEN PosInf ELSE IF a.num < 0 THEN NegInf ELSE NaN)
    ELSE Rat(a.num * b.den, a.den * b.num)

\* a > 0 as Python evaluates it on a float: False for NaN
GtZero(a) == a.kind = "inf" \/ (a.kind \in {"num", "root"} /\ a.num > 0)

\* a / sqrt(v) for finite a and finite v > 0: sign(a) * sqrt(a^2 / v)
DivByRoot(a, v) ==
    LET q == FDiv(FMul(a, a), v)
    IN  IF a.num = 0 THEN Num(0)
        ELSE [kind |-> "root", num |-> Sign(a.num) * q.num, den |-> q.den]

\* sum of a sequence of cells, left to right
RECURSIVE SumCells(_)
SumCells(s) ==
    IF s = << >> THEN Num(0)
    ELSE FAdd(SumCells(SubSeq(s, 1, Len(s) - 1)), s[Len(s)])

----------------------------------------------------------------------------
(* Constants of transform_data *)

\* len(df) > 12 selects the long lag
YoyThreshold == 12
\* pct_change(periods=12)
LagLong == 12
\* pct_change(periods=4)
LagShort == 4
\* rolling(window=3, ...)
Window3m == 3
\* rolling(window=12, ...)
Window12m == 12
\* rolling(..., min_periods=1)
MinPeriods == 1
\* the factor of "* 100"
Percent == 100

----------------------------------------------------------------------------
(* Data frames: a frame is None or a sequence of rows *)

NoneFrame == [none |-> TRUE, rows |-> << >>]

Frame(rows) == [none |-> FALSE, rows |-> rows]

\* a row as extract_series builds it
RawRow(sid, date, v) ==
    [series_id |-> sid, observation_date |-> date, value |-> Num(v)]

\* insertion of a row into a sequence sorted ascending by observation_date
RECURSIVE InsertByDate(_, _)
InsertByDate(sorted, r) ==
    IF sorted = << >> THEN << r >>
    ELSE IF sorted[Len(sorted)].observation_date <= r.observation_date
         THEN Append(sorted, r)
         ELSE Append(InsertByDate(SubSeq(sorted, 1, Len(sorted) - 1), r),
                     sorted[Len(sorted)])

\* df.sort_values('observation_date')
RECURSIVE sort_values(_)
sort_values(rows) ==
    IF rows = << >> THEN << >>
    ELSE InsertByDate(sort_values(SubSeq(rows, 1, Len(rows) - 1)), rows[Len(rows)])

\* Series.shift(periods): the first rows become NaN
shift(vals, periods) ==
    [i \in 1..Len(vals) |-> IF i <= periods THEN NaN ELSE vals[i - periods]]

\* a change that is not divided by its base: vals - vals.shift(periods)
pct_change_undivided(vals, periods) ==
    LET shifted == shift(vals, periods)
    IN  [i \in 1..Len(vals) |-> FSub(vals[i], shifted[i])]

\* Series.pct_change(periods): vals / vals.shift(periods) - 1
pct_change(vals, periods) ==
    LET shifted == shift(vals, periods)
    IN  [i \in 1..Len(vals) |-> FSub(FDiv(vals[i], shifted[i]), Num(1))]

\* the long lag already at YoyThreshold observations: len(df) >= 12
yoy_periods_from_threshold(n) == IF n >= YoyThreshold THEN LagLong ELSE LagShort

\* the lag of the year-over-year change
yoy_periods(n) == IF n > YoyThreshold THEN LagLong ELSE LagShort

\* rolling(window).mean() with the default min_periods = window: missing until
\* the window is full
rolling_mean_full_window(vals, window, min_periods) ==
    [i \in 1..Len(vals) |->
        IF i < window THEN NaN
        ELSE FDiv(SumCells(SubSeq(vals, i - window + 1, i)), Num(window))]

\* Series.rolling(window, min_periods).mean()
rolling_mean(vals, window, min_periods) ==
    [i \in 1..Len(vals) |->
        LET lo == IF i - window + 1 < 1 THEN 1 ELSE i - window + 1
            count == i - lo + 1
        IN  IF count < min_periods THEN NaN
            ELSE FDiv(SumCells(SubSeq(vals, lo, i)), Num(count))]

\* Series.mean()
mean(vals) == FDiv(SumCells(vals), Num(Len(vals)))

\* the population variance (ddof = 0)
variance_population(vals) ==
    LET m == mean(vals)
        sq == [i \in 1..Len(vals) |-> FMul(FSub(vals[i], m), FSub(vals[i], m))]
    IN  FDiv(SumCells(sq), Num(Len(vals)))

\* the square of Series.std(): the sample variance (ddof = 1), NaN for one value
variance(vals) ==
    LET m == mean(vals)
        sq == [i \in 1..Len(vals) |-> FMul(FSub(vals[i], m), FSub(vals[i], m))]
    IN  FDiv(SumCells(sq), Num(Len(vals) - 1))

\* the z_score column without the guard on the standard deviation: a division
\* by a zero or undefined std_val
z_score_unguarded(vals) ==
    LET mean_val == mean(vals)
        var_val == variance(vals)
    IN  IF GtZero(var_val)
        THEN [i \in 1..Len(vals) |-> DivByRoot(FSub(vals[i], mean_val), var_val)]
        ELSE [i \in 1..Len(vals) |->
                IF var_val.kind = "nan" THEN NaN
                ELSE FDiv(FSub(vals[i], mean_val), Num(0))]

\* the z_score column: std_val > 0 is decided on the variance, std_val = sqrt(variance)
z_score(vals) ==
    LET mean_val == mean(vals)
        var_val == variance(vals)
    IN  IF GtZero(var_val)
        THEN [i \in 1..Len(vals) |-> DivByRoot(FSub(vals[i], mean_val), var_val)]
        ELSE [i \in 1..Len(vals) |-> Num(0)]

\* a < b on finite cells
Less(a, b) == a.num * b.den < b.num * a.den

\* rank(pct=True, method='min'): ties take the lowest rank of their group
rank_pct_min(vals) ==
    [i \in 1..Len(vals) |->
        LET less == Cardinality({j \in 1..Len(vals) : Less(vals[j], vals[i])})
        IN  FDiv(Num(less + 1), Num(Len(vals)))]

\* Series.rank(pct=True): average rank of ties, divided by the count
rank_pct(vals) ==
    [i \in 1..Len(vals) |->
        LET less == Cardinality({j \in 1..Len(vals) : Less(vals[j], vals[i])})
            same == Cardinality({j \in 1..Len(vals) : vals[j] = vals[i]})
        IN  FDiv(Rat(2 * less + same + 1, 2), Num(Len(vals)))]

\* a cell left as it is
replace_nothing(c) == c

\* replace([np.inf, -np.inf], np.nan) on one cell
replace_inf(c) == IF IsInf(c) THEN NaN ELSE c

\* column * 100
Times100(col) == [i \in 1..Len(col) |-> FMul(col[i], Num(Percent))]

\* df is None, without the test for an empty frame
is_none_only(frame) == frame.none

\* df is None or df.empty
is_none_or_empty(frame) == frame.none \/ frame.rows = << >>

\* transform_data
transform_data(frame) ==
    IF is_none_or_empty(frame) THEN NoneFrame
    ELSE
      LET sorted == sort_values(frame.rows)
          n == Len(sorted)
          vals == [i \in 1..n |-> sorted[i].value]
          mom == Times100(pct_change(vals, 1))
          yoy == Times100(pct_change(vals, yoy_periods(n)))
          r3 == rolling_mean(vals, Window3m, MinPeriods)
          r12 == rolling_mean(vals, Window12m, MinPeriods)
          z == z_score(vals)
          pr == Times100(rank_pct(vals))
      IN  Frame([i \in 1..n |->
                  [series_id |-> sorted[i].series_id,
                   observation_date |-> sorted[i].observation_date,
                   value |-> replace_inf(vals[i]),
                   mom_change |-> replace_inf(mom[i]),
                   yoy_change |-> replace_inf(yoy[i]),
                   rolling_avg_3m |-> replace_inf(r3[i]),
                   rolling_avg_12m |-> replace_inf(r12[i]),
                   z_score |-> replace_inf(z[i]),
                   percentile_rank |-> replace_inf(pr[i])]])

----------------------------------------------------------------------------
(* The catalog and the relational store *)

\* self.indicators, in insertion order: series_id, title, category
Indicators ==
    << [series_id |-> "GDP", title |-> "Gross Domestic Product", category |-> "Output & Growth"],
       [series_id |-> "INDPRO", title |-> "Industrial Production Index", category |-> "Output & Growth"],
       [series_id |-> "UNRATE", title |-> "Unemployment Rate", category |-> "Labor Market"],
       [series_id |-> "ICSA", title |-> "Initial Jobless Claims", category |-> "Labor Market"],
       [series_id |-> "PAYEMS", title |-> "Total Nonfarm Payrolls", category |-> "Labor Market"],
       [series_id |-> "CPIAUCSL", title |-> "Consumer Price Index", category |-> "Inflation"],
       [series_id |-> "PCEPI", title |-> "PCE Price Index", category |-> "Inflation"],
       [series_id |-> "FEDFUNDS", title |-> "Federal Funds Rate", category |-> "Monetary Policy"],
       [series_id |-> "T10Y2Y", title |-> "10Y-2Y Treasury Spread", category |-> "Monetary Policy"],
       [series_id |-> "DGS10", title |-> "10-Year Treasury Rate", category |-> "Monetary Policy"],
       [series_id |-> "UMCSENT", title |-> "Consumer Sentiment Index", category |-> "Consumer"],
       [series_id |-> "RSXFS", title |-> "Retail Sales", category |-> "Consumer"],
       [series_id |-> "HOUST", title |-> "Housing Starts", category |-> "Housing"] >>

\* the part of the catalog the pipeline specification iterates over
Catalog == SubSeq(Indicators, 1, NumSeries)

\* INSERT INTO series_metadata ... ON CONFLICT (series_id) DO UPDATE SET ...
upsert_metadata(table, row) ==
    IF \E r \in table : r.series_id = row.series_id
    THEN {IF r.series_id = row.series_id
          THEN [r EXCEPT !.title = row.title,
                         !.frequency = row.frequency,
                         !.units = row.units,
                         !.seasonal_adjustment = row.seasonal_adjustment,
                         !.category = row.category,
                         !.last_updated = row.last_updated]
          ELSE r : r \in table}
    ELSE table \cup {row}

\* INSERT INTO observations ... ON CONFLICT (series_id, observation_date) DO UPDATE SET ...
upsert_observation(table, row) ==
    IF \E r \in table : r.series_id = row.series_id
                        /\ r.observation_date = row.observation_date
    THEN {IF r.series_id = row.series_id /\ r.observation_date = row.observation_date
          THEN [r EXCEPT !.value = row.value]
          ELSE r : r \in table}
    ELSE table \cup {row}

\* INSERT INTO calculated_metrics ... ON CONFLICT (...) DO NOTHING: the stored row
\* is kept
upsert_metric_keep_old(table, row) ==
    IF \E r \in table : r.series_id = row.series_id
                        /\ r.observation_date = row.observation_date
    THEN table
    ELSE table \cup {row}

\* INSERT INTO calculated_metrics ... ON CONFLICT (series_id, observation_date) DO UPDATE SET ...
upsert_metric(table, row) ==
    IF \E r \in table : r.series_id = row.series_id
                        /\ r.observation_date = row.observation_date
    THEN {IF r.series_id = row.series_id /\ r.observation_date = row.observation_date
          THEN [r EXCEPT !.value = row.value,
                         !.mom_change = row.mom_change,
                         !.yoy_change = row.yoy_change,
                         !.rolling_avg_3m = row.rolling_avg_3m,
                         !.rolling_avg_12m = row.rolling_avg_12m,
                         !.z_score = row.z_score,
                         !.percentile_rank = row.percentile_rank]
          ELSE r : r \in table}
    ELSE table \cup {row}

\* the row load_metadata binds; info is the fetched series info, now the clock
metadata_row(ind, info, now) ==
    [series_id |-> ind.series_id,
     title |-> ind.title,
     frequency |-> info.frequency_short,
     units |-> info.units,
     seasonal_adjustment |-> info.seasonal_adjustment_short,
     category |-> ind.category,
     last_updated |-> now]

\* df[['series_id', 'observation_date', 'value']]
observation_row(r) ==
    [series_id |-> r.series_id, observation_date |-> r.observation_date,
     value |-> r.value]

\* load_observations: one upsert per row, in row order, committed together
RECURSIVE load_observations(_, _)
load_observations(table, rows) ==
    IF rows = << >> THEN table
    ELSE upsert_observation(load_observations(table, SubSeq(rows, 1, Len(rows) - 1)),
                            observation_row(rows[Len(rows)]))

\* load_metrics: one upsert per row, in row order, committed together
RECURSIVE load_metrics(_, _)
load_metrics(table, rows) ==
    IF rows = << >> THEN table
    ELSE upsert_metric(load_metrics(table, SubSeq(rows, 1, Len(rows) - 1)),
                       rows[Len(rows)])

\* fred.get_series_info(series_id), the fields load_metadata reads
SeriesInfo(sid) ==
    [frequency_short |-> "M", units |-> "", seasonal_adjustment_short |-> ""]

----------------------------------------------------------------------------
(* The process: main, run_full_pipeline, process_series *)

\* values of DATABASE_URL: unset, without '@', with '@'
DbUrls == {"", "sqlite:///fred.db", "postgresql://user@host/fred"}

HasAt(url) == url = "postgresql://user@host/fred"

Envs == [FRED_API_KEY : BOOLEAN, DATABASE_URL : DbUrls]

\* FredETLPipeline.__init__ raises: a missing variable (ValueError), or
\* DATABASE_URL.split('@')[1] on a URL without '@' (IndexError)
init_raises(e) ==
    \/ ~e.FRED_API_KEY
    \/ e.DATABASE_URL = ""
    \/ ~HasAt(e.DATABASE_URL)

\* a status that also reports failed series
main_exit_on_failures(raised) == IF raised \/ fail_count > 0 THEN 1 ELSE 0

\* main: status of the process, given whether an exception reached its handler
main_exit(raised) == IF raised THEN 1 ELSE 0

\* success_count += 1
count_success(c) == c + 1

\* the else branch: fail_count += 1
count_false(c) == c + 1

\* an except branch that does not count
count_nothing(c) == c

\* the except branch: fail_count += 1
count_exception(c) == c + 1

\* what fred.get_series returns for a series in the pipeline specification: the
\* observations published by run r, at the consecutive dates 1..r+1.  The newest
\* observation is preliminary (2d - 1) and is revised to its final value (2d) by
\* the next run; older observations come back unchanged.
Published(sid, r) ==
    Frame([d \in 1..(r + 1) |-> RawRow(sid, d, IF d = r + 1 THEN 2 * d - 1 ELSE 2 * d)])

FetchFrames(sid, r) == {Frame(<< >>), Published(sid, r)}

\* the history of a run: the series whose processing began, what each fetch gave
\* ("error", "empty", "data"), how each series ended, the upserts issued
\* (series, table), the call of main whose exception reached its handler, and
\* the number of pauses taken
EmptyLog == [attempted |-> << >>, fetched |-> << >>, outcome |-> << >>,
             issued |-> << >>, raised |-> "none", pauses |-> 0]

EmptyWritten == [series_metadata |-> << >>, observations |-> << >>,
                 calculated_metrics |-> << >>]

\* the record of the last write: key -> row, as a sequence of pairs with unique keys
Remember(hist, key, row) ==
    LET others == SelectSeq(hist, LAMBDA p : p[1] # key)
    IN  Append(others, << key, row >>)

RECURSIVE RememberAll(_, _)
RememberAll(hist, rows) ==
    IF rows = << >> THEN hist
    ELSE LET r == rows[Len(rows)]
         IN  Remember(RememberAll(hist, SubSeq(rows, 1, Len(rows) - 1)),
                      << r.series_id, r.observation_date >>, r)

Note(kind) == [log EXCEPT !.outcome = Append(@, kind)]

Issue(l, table) == [l EXCEPT !.issued = Append(@, << Catalog[idx].series_id, table >>)]

Init ==
    /\ pc = "main"
    /\ env \in Envs
    /\ run = 1
    /\ idx = 0
    /\ success_count = 0
    /\ fail_count = 0
    /\ df = NoneFrame
    /\ df_transformed = NoneFrame
    /\ series_metadata = {}
    /\ observations = {}
    /\ calculated_metrics = {}
    /\ exit_status = 0 - 1
    /\ log = EmptyLog
    /\ written = EmptyWritten

\* main, line 388: pipeline = FredETLPipeline()
Construct ==
    /\ pc = "main"
    /\ IF init_raises(env)
       THEN /\ pc' = "exited"
            /\ exit_status' = main_exit(TRUE)
            /\ log' = [log EXCEPT !.raised = "FredETLPipeline"]
       ELSE /\ pc' = "run_full_pipeline"
            /\ UNCHANGED << exit_status, log >>
    /\ UNCHANGED << env, run, idx, success_count, fail_count, df, df_transformed,
                    series_metadata, observations, calculated_metrics, written >>

\* run_full_pipeline, lines 314-324: the counters, then the first series
StartPipeline ==
    /\ pc = "run_full_pipeline"
    /\ success_count' = 0
    /\ fail_count' = 0
    /\ IF Len(Catalog) > 0
       THEN idx' = 1 /\ pc' = "extract"
       ELSE idx' = 0 /\ pc' = "summary"
    /\ UNCHANGED << env, run, df, df_transformed, series_metadata, observations,
                    calculated_metrics, exit_status, log, written >>

\* the for loop moves to the next series, or ends
Advance ==
    IF idx < Len(Catalog)
    THEN idx' = idx + 1 /\ pc' = "extract"
    ELSE idx' = idx /\ pc' = "summary"

\* process_series returned False: the else branch counts, then the pause
ReturnFalse(kind) ==
    /\ fail_count' = count_false(fail_count)
    /\ pc' = "sleep"
    /\ log' = Note(kind)
    /\ UNCHANGED << idx, success_count >>

\* an exception left process_series: the except branch counts, the loop goes on
Except(kind, l) ==
    /\ fail_count' = count_exception(fail_count)
    /\ log' = [l EXCEPT !.outcome = Append(@, kind)]
    /\ Advance
    /\ df' = NoneFrame
    /\ df_transformed' = NoneFrame
    /\ UNCHANGED success_count

\* process_series, lines 288-295: extract_series, which catches every error of the fetch
Extract ==
    /\ pc = "extract"
    /\ \/ /\ df' = NoneFrame
          /\ fail_count' = count_false(fail_count)
          /\ pc' = "sleep"
          /\ log' = [log EXCEPT !.attempted = Append(@, Catalog[idx].series_id),
                                !.fetched = Append(@, "error"),
                                !.outcome = Append(@, "fetch_error")]
          /\ UNCHANGED idx
       \/ /\ df' \in FetchFrames(Catalog[idx].series_id, run)
          /\ pc' = "transform"
          /\ log' = [log EXCEPT !.attempted = Append(@, Catalog[idx].series_id),
                                !.fetched = Append(@, IF df'.rows = << >>
                                                      THEN "empty" ELSE "data")]
          /\ UNCHANGED << idx, fail_count >>
    /\ UNCHANGED << env, run, success_count, df_transformed, series_metadata,
                    observations, calculated_metrics, exit_status, written >>

\* process_series, lines 298-300
Transform ==
    /\ pc = "transform"
    /\ df_transformed' = transform_data(df)
    /\ IF df_transformed'.none
       THEN /\ ReturnFalse("empty")
            /\ df' = NoneFrame
       ELSE /\ pc' = "load_metadata"
            /\ UNCHANGED << idx, success_count, fail_count, df, log >>
    /\ UNCHANGED << env, run, series_metadata, observations, calculated_metrics,
                    exit_status, written >>

\* process_series, line 304
LoadMetadata ==
    /\ pc = "load_metadata"
    /\ \/ /\ Except("metadata_error", Issue(log, "series_metadata"))
          /\ UNCHANGED << series_metadata, written >>
       \/ LET row == metadata_row(Catalog[idx], SeriesInfo(Catalog[idx].series_id), run)
          IN  /\ series_metadata' = upsert_metadata(series_metadata, row)
              /\ written' = [written EXCEPT !.series_metadata =
                                Remember(@, row.series_id, row)]
              /\ log' = Issue(log, "series_metadata")
              /\ pc' = "load_observations"
              /\ UNCHANGED << idx, success_count, fail_count, df, df_transformed >>
    /\ UNCHANGED << env, run, observations, calculated_metrics, exit_status >>

\* process_series, line 305
LoadObservations ==
    /\ pc = "load_observations"
    /\ \/ /\ Except("observations_error", Issue(log, "observations"))
          /\ UNCHANGED << observations, written >>
       \/ /\ observations' = load_observations(observations, df_transformed.rows)
          /\ written' = [written EXCEPT !.observations =
                            RememberAll(@, [i \in 1..Len(df_transformed.rows) |->
                                            observation_row(df_transformed.rows[i])])]
          /\ log' = Issue(log, "observations")
          /\ pc' = "load_metrics"
          /\ UNCHANGED << idx, success_count, fail_count, df, df_transformed >>
    /\ UNCHANGED << env, run, series_metadata, calculated_metrics, exit_status >>

\* process_series, lines 306-309, and the if branch of the loop
LoadMetrics ==
    /\ pc = "load_metrics"
    /\ \/ /\ Except("metrics_error", Issue(log, "calculated_metrics"))
          /\ UNCHANGED << calculated_metrics, written >>
       \/ /\ calculated_metrics' = load_metrics(calculated_metrics, df_transformed.rows)
          /\ written' = [written EXCEPT !.calculated_metrics =
                            RememberAll(@, df_transformed.rows)]
          /\ log' = [Issue(log, "calculated_metrics") EXCEPT
                        !.outcome = Append(@, "loaded")]
          /\ success_count' = count_success(success_count)
          /\ pc' = "sleep"
          /\ df' = NoneFrame
          /\ df_transformed' = NoneFrame
          /\ UNCHANGED << idx, fail_count >>
    /\ UNCHANGED << env, run, series_metadata, observations, exit_status >>

\* run_full_pipeline, line 332: time.sleep(0.5), then the next series
Sleep ==
    /\ pc = "sleep"
    /\ Advance
    /\ log' = [log EXCEPT !.pauses = @ + 1]
    /\ UNCHANGED << env, run, success_count, fail_count, df, df_transformed,
                    series_metadata, observations, calculated_metrics, exit_status,
                    written >>

\* run_full_pipeline, lines 338-349: the summary and the return
Summary ==
    /\ pc = "summary"
    /\ pc' = "export_for_dashboard"
    /\ UNCHANGED << env, run, idx, success_count, fail_count, df, df_transformed,
                    series_metadata, observations, calculated_metrics, exit_status,
                    log, written >>

\* main, line 392: the export reads the store and writes a file; either can fail
ExportForDashboard ==
    /\ pc = "export_for_dashboard"
    /\ \/ /\ pc' = "export_current_snapshot"
          /\ UNCHANGED << exit_status, log >>
       \/ /\ pc' = "exited"
          /\ exit_status' = main_exit(TRUE)
          /\ log' = [log EXCEPT !.raised = "export_for_dashboard"]
    /\ UNCHANGED << env, run, idx, success_count, fail_count, df, df_transformed,
                    series_metadata, observations, calculated_metrics, written >>

\* main, lines 393-402
ExportCurrentSnapshot ==
    /\ pc = "export_current_snapshot"
    /\ pc' = "exited"
    /\ \/ /\ exit_status' = main_exit(FALSE)
          /\ UNCHANGED log
       \/ /\ exit_status' = main_exit(TRUE)
          /\ log' = [log EXCEPT !.raised = "export_current_snapshot"]
    /\ UNCHANGED << env, run, idx, success_count, fail_count, df, df_transformed,
                    series_metadata, observations, calculated_metrics, written >>

\* the job is started again, against the same store
Restart ==
    /\ pc = "exited"
    /\ run < MaxRuns
    /\ pc' = "main"
    /\ run' = run + 1
    /\ idx' = 0
    /\ success_count' = 0
    /\ fail_count' = 0
    /\ df' = NoneFrame
    /\ df_transformed' = NoneFrame
    /\ exit_status' = 0 - 1
    /\ log' = EmptyLog
    /\ UNCHANGED << env, series_metadata, observations, calculated_metrics, written >>

Next ==
    \/ Construct
    \/ StartPipeline
    \/ Extract
    \/ Transform
    \/ LoadMetadata
    \/ LoadObservations
    \/ LoadMetrics
    \/ Sleep
    \/ Summary
    \/ ExportForDashboard
    \/ ExportCurrentSnapshot
    \/ Restart

Spec == Init /\ [][Next]_vars

----------------------------------------------------------------------------
(* transform_data on its own *)

Values == (0 - 1)..MaxVal

\* the leading values of a sequence: every sequence of at most HeadLen values
Heads == UNION { [1..k -> Values] : k \in 0..HeadLen }

\* a sequence of n values: the head, then one value repeated
SeriesValues(head, fill, n) ==
    [i \in 1..n |-> IF i <= Len(head) THEN head[i] ELSE fill]

\* the order in which the rows reach transform_data
Orders == {"ascending", "descending", "rotated"}

Arrange(rows, order) ==
    LET n == Len(rows)
    IN  IF order = "descending" THEN [i \in 1..n |-> rows[n + 1 - i]]
        ELSE IF order = "rotated" THEN [i \in 1..n |-> rows[(i % n) + 1]]
        ELSE rows

\* the frames given to transform_data: None, the empty frame, and the sequences above
TransformInit ==
    /\ pc = "transform_data"
    /\ \/ df \in {NoneFrame, Frame(<< >>)}
       \/ \E head \in Heads, fill \in Values, n \in 1..MaxLen, order \in Orders :
            /\ Len(head) <= n
            /\ df = Frame(Arrange([i \in 1..n |->
                            RawRow("GDP", i, SeriesValues(head, fill, n)[i])], order))
    /\ env = [FRED_API_KEY |-> TRUE, DATABASE_URL |-> "postgresql://user@host/fred"]
    /\ run = 1
    /\ idx = 0
    /\ success_count = 0
    /\ fail_count = 0
    /\ df_transformed = NoneFrame
    /\ series_metadata = {}
    /\ observations = {}
    /\ calculated_metrics = {}
    /\ exit_status = 0 - 1
    /\ log = EmptyLog
    /\ written = EmptyWritten

\* df_transformed = self.transform_data(df)
TransformCall ==
    /\ pc = "transform_data"
    /\ df_transformed' = transform_data(df)
    /\ pc' = "transformed"
    /\ UNCHANGED << env, run, idx, success_count, fail_count, df, series_metadata,
                    observations, calculated_metrics, exit_status, log, written >>

TransformNext == TransformCall

SpecTransform == TransformInit /\ [][TransformNext]_vars

----------------------------------------------------------------------------
(* Properties of transform_data, checked under SpecTransform *)

\* transform_data has run on a frame that holds observations
Transformed == pc = "transformed" /\ ~df.none /\ df.rows # << >>

\* number of observations of the input
N == Len(df.rows)

\* the rows of the output
Out == df_transformed.rows

\* the values of the input by date, whatever the order of its rows
InputValues ==
    [d \in 1..N |->
        (CHOOSE r \in {df.rows[i] : i \in 1..N} : r.observation_date = d).value.num]

\* (a - b) / b * 100 in exact arithmetic, for b # 0
PctOf(a, b) == Rat(Percent * (a - b), b)

\* (a - b) / b * 100 as IEEE arithmetic gives it, also for b = 0
PctOfIEEE(a, b) ==
    IF b # 0 THEN PctOf(a, b)
    ELSE IF a > 0 THEN PosInf ELSE IF a < 0 THEN NegInf ELSE NaN

\* every value of v is the same
AllEqual(v) == \A i \in 1..Len(v) : v[i] = v[1]

\* the output has the rows of the input v in ascending date order
Ascending(v) ==
    /\ Len(Out) = Len(v)
    /\ \A i \in 1..Len(v) : Out[i].observation_date = i /\ Out[i].value = Num(v[i])

\* sum of a sequence of integers
RECURSIVE SumInts(_, _)
SumInts(v, k) == IF k = 0 THEN 0 ELSE SumInts(v, k - 1) + v[k]

\* C5 as claimed: mom_change is missing for row 0 and for no other row; every
\* later row carries (value[i] - value[i-1]) / value[i-1] * 100.
C5_MomMissingOnlyRow0 ==
    Transformed =>
        LET v == InputValues IN
        \A i \in 1..N :
            /\ (Out[i].mom_change = NaN) <=> (i = 1)
            /\ i > 1 => Out[i].mom_change = PctOfIEEE(v[i], v[i - 1])

\* C5 amended: mom_change is missing for row 0 and for every row whose preceding
\* value is zero; every other row carries
\* (value[i] - value[i-1]) / value[i-1] * 100.
C5_MomChange ==
    Transformed =>
        LET v == InputValues IN
        /\ Ascending(v)
        /\ \A i \in 1..N :
            IF i = 1 \/ v[i - 1] = 0
            THEN Out[i].mom_change = NaN
            ELSE Out[i].mom_change = PctOf(v[i], v[i - 1])

\* C5 witness: a sequence with a row after a zero (missing) and a row after a
\* non-zero value that changed (defined, non-zero)
C5_Witness ==
    /\ Transformed
    /\ LET v == InputValues IN
       /\ \E i \in 2..N : v[i - 1] = 0 /\ v[i] # 0 /\ Out[i].mom_change = NaN
       /\ \E i \in 2..N : v[i - 1] # 0 /\ v[i] # v[i - 1] /\ IsNum(Out[i].mom_change)

\* C6 as claimed: if all values are equal, percentile_rank is 50 for every row.
C6_UniformRankIs50 ==
    (Transformed /\ AllEqual(InputValues)) =>
        \A i \in 1..N : Out[i].percentile_rank = Num(50)

\* C6 amended: if all n values are equal, percentile_rank is 100 * (n + 1) / (2n)
\* for every row (100 for n = 1, 75 for n = 2), the average rank (n + 1) / 2
\* divided by n; it is above 50 for every n.
C6_UniformRank ==
    (Transformed /\ AllEqual(InputValues)) =>
        \A i \in 1..N :
            /\ Out[i].percentile_rank = Rat(Percent * (N + 1), 2 * N)
            /\ Out[i].percentile_rank # Num(50)

\* C6 witness: several equal values
C6_Witness ==
    /\ Transformed
    /\ AllEqual(InputValues)
    /\ N >= 3
    /\ Out[N].percentile_rank = Rat(Percent * (N + 1), 2 * N)

\* d / sqrt(ss / (n - 1)) where d is n times a deviation from the mean and ss the
\* sum of the squares of these over the whole sequence, ss # 0: the quotient
\* (value[i] - mean) / std for the sample standard deviation
ZOf(d, ss, n) ==
    IF d = 0 THEN Num(0)
    ELSE LET q == Rat(d * d * (n - 1), ss)
         IN  [kind |-> "root", num |-> Sign(d) * q.num, den |-> q.den]

\* C7: when the standard deviation of the whole sequence is zero (the squared
\* deviations sum to 0) or undefined (one observation), which covers every
\* sequence of equal values, z_score is exactly 0 for every row; otherwise
\* z_score[i] = (value[i] - mean) / std over the entire sequence.
C7_ZScore ==
    Transformed =>
        LET v == InputValues
            total == SumInts(v, N)
            dev == [i \in 1..N |-> N * v[i] - total]
            ss == SumInts([i \in 1..N |-> dev[i] * dev[i]], N)
        IN  /\ Ascending(v)
            /\ \A i \in 1..N :
                IF N = 1 \/ ss = 0 THEN Out[i].z_score = Num(0)
                ELSE Out[i].z_score = ZOf(dev[i], ss, N)
            /\ AllEqual(v) => (N = 1 \/ ss = 0)

\* C7 witness: several equal values, z_score 0 in every row
C7_Witness ==
    /\ Transformed
    /\ N >= 2
    /\ AllEqual(InputValues)
    /\ \A i \in 1..N : Out[i].z_score = Num(0)

\* C8: a single observation gives exactly one row, mom_change and yoy_change
\* missing, both rolling averages equal to the value, z_score 0,
\* percentile_rank 100.
C8_SingleObservation ==
    (Transformed /\ N = 1) =>
        LET v == InputValues IN
        /\ Len(Out) = 1
        /\ Out[1].mom_change = NaN
        /\ Out[1].yoy_change = NaN
        /\ Out[1].rolling_avg_3m = Num(v[1])
        /\ Out[1].rolling_avg_12m = Num(v[1])
        /\ Out[1].value = Num(v[1])
        /\ Out[1].z_score = Num(0)
        /\ Out[1].percentile_rank = Num(100)

\* C8 witness: one observation, not zero, transformed
C8_Witness ==
    /\ Transformed
    /\ N = 1
    /\ InputValues[1] # 0
    /\ Len(Out) = 1
    /\ Out[1].rolling_avg_3m = Num(InputValues[1])

\* the cells of a transformed row
Cells(r) ==
    {r.value, r.mom_change, r.yoy_change, r.rolling_avg_3m, r.rolling_avg_12m,
     r.z_score, r.percentile_rank}

\* the lag of yoy_change, as the claims state it
L == IF N > 12 THEN 12 ELSE 4

\* C9: no field of a row returned by transform_data is +infinity or -infinity;
\* a percent change from a zero base, which would be infinite, is missing.
C9_NoInfinity ==
    (pc = "transformed" /\ ~df_transformed.none) =>
        LET v == InputValues IN
        /\ \A i \in 1..Len(Out) : \A c \in Cells(Out[i]) : ~IsInf(c)
        /\ \A i \in 2..N : (v[i - 1] = 0 /\ v[i] # 0) => Out[i].mom_change = NaN
        /\ \A i \in (L + 1)..N : (v[i - L] = 0 /\ v[i] # 0) => Out[i].yoy_change = NaN

\* C9 witness: a rise from a zero base and a fall from a zero base, both missing
\* in the output
C9_Witness ==
    /\ Transformed
    /\ LET v == InputValues IN
       /\ \E i \in 2..N : v[i - 1] = 0 /\ v[i] > 0 /\ Out[i].mom_change = NaN
       /\ \E i \in (L + 1)..N : v[i - L] = 0 /\ v[i] < 0 /\ Out[i].yoy_change = NaN

\* C10 as claimed: with L = 12 for more than 12 observations and 4 otherwise,
\* yoy_change is missing for the rows before L and equals
\* (value[i] - value[i-L]) / value[i-L] * 100 for every row from L on.
C10_YoyEveryRowFromL ==
    Transformed =>
        LET v == InputValues IN
        \A i \in 1..N :
            IF i <= L THEN Out[i].yoy_change = NaN
            ELSE Out[i].yoy_change = PctOfIEEE(v[i], v[i - L])

\* C10 amended: with L = 12 for more than 12 observations and 4 otherwise, rows
\* taken in ascending date order whatever the input order, yoy_change is missing
\* for the rows before L and for every row whose base value[i-L] is zero, and
\* equals (value[i] - value[i-L]) / value[i-L] * 100 for every other row.
C10_YoyChange ==
    Transformed =>
        LET v == InputValues IN
        /\ Ascending(v)
        /\ \A i \in 1..N :
            IF i <= L \/ v[i - L] = 0
            THEN Out[i].yoy_change = NaN
            ELSE Out[i].yoy_change = PctOf(v[i], v[i - L])

\* C10 witness: more than 12 observations, given out of date order, with a
\* defined non-zero change at lag 12
C10_Witness ==
    /\ Transformed
    /\ N > 12
    /\ df.rows[1].observation_date # 1
    /\ \E i \in 13..N : IsNum(Out[i].yoy_change) /\ Out[i].yoy_change # Num(0)

\* mean of v[max(1, i - back) .. i], in exact arithmetic
TrailingMean(v, i, back) ==
    LET lo == IF i - back < 1 THEN 1 ELSE i - back
        RECURSIVE total(_)
        total(k) == IF k < lo THEN 0 ELSE total(k - 1) + v[k]
    IN  Rat(total(i), i - lo + 1)

\* C11: for every non-empty observation sequence and every row i, row 0
\* included, rolling_avg_3m[i] and rolling_avg_12m[i] are defined and equal the
\* mean of value[max(0, i-2) .. i] and of value[max(0, i-11) .. i], the window
\* shrinking near the start of the series.
C11_RollingAverages ==
    Transformed =>
        LET v == InputValues IN
        /\ Ascending(v)
        /\ \A i \in 1..N :
            /\ IsNum(Out[i].rolling_avg_3m)
            /\ IsNum(Out[i].rolling_avg_12m)
            /\ Out[i].rolling_avg_3m = TrailingMean(v, i, 2)
            /\ Out[i].rolling_avg_12m = TrailingMean(v, i, 11)

\* C11 witness: more than 12 observations that are not all equal; row 0 has a
\* window of one value, at row 3 the window of 3 has left the first value behind
\* while the window of 12 still holds it, and at the last row the full window of
\* 12 has left it behind too
C11_Witness ==
    /\ Transformed
    /\ N > 12
    /\ LET v == InputValues IN
       /\ v[1] # v[N]
       /\ Out[1].rolling_avg_3m = Num(v[1])
       /\ Out[N].rolling_avg_12m = TrailingMean(v, N, 11)
       /\ Out[4].rolling_avg_3m # Out[4].rolling_avg_12m
       /\ Out[N].rolling_avg_12m = Num(v[N])

----------------------------------------------------------------------------
(* Properties of the pipeline, checked under Spec *)

\* run_full_pipeline has returned in this run
PipelineReturned ==
    \/ pc \in {"summary", "export_for_dashboard", "export_current_snapshot"}
    \/ pc = "exited" /\ log.raised # "FredETLPipeline"

\* number of series of this run that hit a failure
Failures == Cardinality({k \in 1..Len(log.outcome) : log.outcome[k] # "loaded"})

\* C1: whatever the outcome of each series (fetch error, empty result, exception
\* in one of the three load steps), every series of the catalog is attempted
\* exactly once, in catalog order; when run_full_pipeline returns each series has
\* been counted exactly once: success_count + fail_count is the catalog size and
\* fail_count is the number of series that hit a failure.
C1_EverySeriesCountedOnce ==
    /\ Len(log.attempted) <= Len(Catalog)
    /\ \A k \in 1..Len(log.attempted) : log.attempted[k] = Catalog[k].series_id
    /\ PipelineReturned =>
        /\ Len(log.attempted) = Len(Catalog)
        /\ Len(log.outcome) = Len(Catalog)
        /\ success_count + fail_count = Len(Catalog)
        /\ fail_count = Failures

\* C1 witness: the run returned after an exception in a load step of the first
\* series and a fetch error, an empty result or a load of a later one
C1_Witness ==
    /\ pc = "summary"
    /\ log.outcome[1] \in {"metadata_error", "observations_error", "metrics_error"}
    /\ fail_count >= 1
    /\ success_count + fail_count = Len(Catalog)

\* C2: when the fetch of a series fails or gives no observation, transform_data
\* returns None, no metadata, observation or metrics upsert is issued for the
\* series, the series is counted as a failure, and the next series is processed.
C2_NothingToPersist ==
    /\ (pc = "transform" /\ df.rows = << >>) => transform_data(df).none
    /\ \A k \in 1..Len(log.fetched) :
        log.fetched[k] \in {"error", "empty"} =>
            /\ \A j \in 1..Len(log.issued) : log.issued[j][1] # Catalog[k].series_id
            /\ k <= Len(log.outcome) =>
                /\ log.outcome[k] \in {"fetch_error", "empty"}
                /\ fail_count >= Cardinality({j \in 1..k : log.outcome[j] # "loaded"})
                /\ fail_count >= 1
            /\ (PipelineReturned /\ k < Len(Catalog)) => Len(log.attempted) > k

\* C2 witness: the first series gave no observation, was counted as a failure
\* without an upsert, and the second series was loaded
C2_Witness ==
    /\ Len(log.outcome) >= 2
    /\ log.fetched[1] = "empty"
    /\ log.outcome[1] = "empty"
    /\ log.outcome[2] = "loaded"
    /\ fail_count >= 1
    /\ \A j \in 1..Len(log.issued) : log.issued[j][1] # Catalog[1].series_id

\* C3: the process exits with a non-zero status only when an exception escapes
\* the top-level run (the construction of the pipeline, which with a missing
\* FRED_API_KEY or DATABASE_URL happens before any series is processed, or an
\* export); failures of series in run_full_pipeline never give a non-zero status.
C3_ExitStatus ==
    /\ exit_status \in {0 - 1, 0, 1}
    /\ (pc = "exited") <=> (exit_status # 0 - 1)
    /\ exit_status = 1 => log.raised # "none"
    /\ (pc = "exited" /\ log.raised = "none") => exit_status = 0
    /\ (~env.FRED_API_KEY \/ env.DATABASE_URL = "") =>
        /\ log.attempted = << >>
        /\ pc \in {"main", "exited"}
        /\ pc = "exited" => (exit_status = 1 /\ log.raised = "FredETLPipeline")

\* C3 witness: every series of the catalog failed and the process exited with 0
C3_Witness ==
    /\ pc = "exited"
    /\ exit_status = 0
    /\ fail_count = Len(Catalog)
    /\ success_count = 0

\* the rows a history of last writes holds
LastRows(hist) == {hist[i][2] : i \in 1..Len(hist)}

\* C4: after any sequence of upserts, over repeated runs, each table holds at
\* most one row per natural key (series_id for series_metadata, series_id and
\* observation_date for observations and calculated_metrics), that row is the
\* one most recently upserted for the key, and upserting a stored row again
\* leaves the table as it is.
C4_LastWriteWins ==
    /\ \A r1, r2 \in series_metadata : r1.series_id = r2.series_id => r1 = r2
    /\ \A r1, r2 \in observations :
        (r1.series_id = r2.series_id /\ r1.observation_date = r2.observation_date)
            => r1 = r2
    /\ \A r1, r2 \in calculated_metrics :
        (r1.series_id = r2.series_id /\ r1.observation_date = r2.observation_date)
            => r1 = r2
    /\ series_metadata = LastRows(written.series_metadata)
    /\ observations = LastRows(written.observations)
    /\ calculated_metrics = LastRows(written.calculated_metrics)
    /\ \A r \in series_metadata : upsert_metadata(series_metadata, r) = series_metadata
    /\ \A r \in observations : upsert_observation(observations, r) = observations
    /\ \A r \in calculated_metrics : upsert_metric(calculated_metrics, r) = calculated_metrics

\* C4 witness: a second run has loaded the first series again: its metadata row
\* is that of the second run, the observation of date 2 carries its revised
\* value, and the metrics of date 2 are those computed from the revised series
C4_Witness ==
    /\ run = 2
    /\ pc = "sleep"
    /\ idx = 1
    /\ \E r \in series_metadata :
        r.series_id = Catalog[1].series_id /\ r.last_updated = 2
    /\ \E r \in observations :
        r.series_id = Catalog[1].series_id /\ r.observation_date = 2 /\ r.value = Num(4)
    /\ \E r \in calculated_metrics :
        /\ r.series_id = Catalog[1].series_id
        /\ r.observation_date = 2
        /\ r.value = Num(4)
        /\ r.mom_change = Num(100)
    /\ Cardinality({r \in observations : r.series_id = Catalog[1].series_id}) = 3

\* C12: the pause is taken after every series, whatever its outcome, before the
\* fetch of the next one: when the fetch of series k+1 is about to start, one
\* pause has been taken for each of the k series processed so far, those that
\* failed with an exception of a load step included.
C12_PauseAfterEverySeries ==
    pc = "extract" => log.pauses = Len(log.outcome)

=============================================================================
